---- MODULE Spec2Model ----
(***************************************************************************)
(* A model of the GitHub issue creation client: the two IssueCreator       *)
(* classes (github_issue_creator, with proxy support and a structured      *)
(* IssueResponse, and the older issue_creator, which prints the URL), the  *)
(* IssueResponse model and the IssueCreationError exception.               *)
(*                                                                         *)
(* Python values are tagged records, so that None, "", 0 and {} stay       *)
(* distinct and Python's truthiness can be computed as the code does.      *)
(* The HTTP transport (requests.Session) is the environment: each call to  *)
(* create draws what session.post, raise_for_status, .text and .json()     *)
(* do from a bounded set of transport outcomes.                            *)
(***************************************************************************)
EXTENDS Integers, Sequences, FiniteSets, TLC

VARIABLES client, ctor, sessions, posts, calls, last, strOut

vars == <<client, ctor, sessions, posts, calls, last, strOut>>

\* Number of create calls explored on the one client.
MaxCalls == 2

-----------------------------------------------------------------------------
(* Python values *)

PyNone == [t |-> "None"]
PyStr(s) == [t |-> "str", v |-> s]
PyInt(n) == [t |-> "int", v |-> n]
PyDict(d) == [t |-> "dict", v |-> d]
PyList(l) == [t |-> "list", v |-> l]

EmptyDict == PyDict(<<>>)

\* bool(x) as Python computes it for the values above.
Truthy(x) ==
  CASE x.t = "None" -> FALSE
    [] x.t = "str" -> x.v # ""
    [] x.t = "int" -> x.v # 0
    [] x.t = "dict" -> DOMAIN x.v # {}
    [] x.t = "list" -> Len(x.v) # 0

\* isinstance(x, dict)
IsDict(x) == x.t = "dict"

\* d.get(k, default) on a dict value.
Get(d, k, default) == IF k \in DOMAIN d.v THEN d.v[k] ELSE default

\* f"{x}" for the values that are formatted into strings.
Format(x) ==
  CASE x.t = "str" -> x.v
    [] x.t = "int" -> ToString(x.v)
    [] x.t = "None" -> "None"

-----------------------------------------------------------------------------
(* Construction *)

NoClient == [cls |-> "none"]
NoCtor == [cls |-> "none"]

AcceptHeader == "application/vnd.github.v3+json"

\* requests.Session() followed by the proxies and headers updates.
NewSession(token, proxies) ==
  [headers |-> [Authorization |-> "token " \o Format(token), Accept |-> AcceptHeader],
   proxies |-> proxies]

\* RequiredArgsError with the repository name check forgotten.
RequiredArgsError_noRepo(token, repo_owner, repo_name) ==
  IF ~Truthy(token) THEN PyStr("GitHub token is required.")
  ELSE IF ~Truthy(repo_owner) THEN PyStr("Repository owner is required.")
  ELSE PyNone

\* The three "is required" checks shared by both constructors: the message of
\* the ValueError raised, or PyNone when all three pass.
RequiredArgsError(token, repo_owner, repo_name) ==
  IF ~Truthy(token) THEN PyStr("GitHub token is required.")
  ELSE IF ~Truthy(repo_owner) THEN PyStr("Repository owner is required.")
  ELSE IF ~Truthy(repo_name) THEN PyStr("Repository name is required.")
  ELSE PyNone

\* The proxy branch of github_issue_creator's constructor: the message of the
\* ValueError raised, or PyNone.
ProxyError(proxy) ==
  IF Truthy(proxy) THEN
    IF Truthy(proxy) /\ ~IsDict(proxy) THEN PyStr("Proxy must be a dictionary")
    ELSE PyNone
  ELSE PyNone

\* github_issue_creator.IssueCreator.__init__: what it raises (a ValueError
\* message or PyNone), the object it leaves, and the sessions it created.
IssueCreator_init(token, repo_owner, repo_name, proxy) ==
  LET req == RequiredArgsError(token, repo_owner, repo_name) IN
  IF req # PyNone THEN [raised |-> req, self |-> NoClient, sessions |-> 0]
  ELSE IF ProxyError(proxy) # PyNone
    THEN [raised |-> ProxyError(proxy), self |-> NoClient, sessions |-> 0]
  ELSE [raised |-> PyNone,
        self |-> [cls |-> "github_issue_creator",
                  token |-> token, repo_owner |-> repo_owner,
                  repo_name |-> repo_name, proxy |-> proxy,
                  session |-> NewSession(token,
                                IF Truthy(proxy) THEN proxy ELSE EmptyDict)],
        sessions |-> 1]

\* issue_creator.IssueCreator.__init__ (no proxy parameter).
LegacyIssueCreator_init(token, repo_owner, repo_name) ==
  LET req == RequiredArgsError(token, repo_owner, repo_name) IN
  IF req # PyNone THEN [raised |-> req, self |-> NoClient, sessions |-> 0]
  ELSE [raised |-> PyNone,
        self |-> [cls |-> "issue_creator",
                  token |-> token, repo_owner |-> repo_owner,
                  repo_name |-> repo_name, proxy |-> PyNone,
                  session |-> NewSession(token, EmptyDict)],
        sessions |-> 1]

\* Arguments a caller passes to the constructors.
Tokens == {PyNone, PyStr(""), PyStr("fake_token")}
Owners == {PyNone, PyStr(""), PyStr("fake_owner"), PyStr("octo")}
Repos == {PyNone, PyStr(""), PyStr("fake_repo")}
ProxyDict ==
  PyDict([k \in {"http", "https"} |-> PyStr("http://proxy.example.com")])
Proxies ==
  {PyNone, PyStr(""), PyStr("invalid_proxy"), PyList(<<>>), EmptyDict, ProxyDict}

-----------------------------------------------------------------------------
(* Models: Issue, IssueResponse, IssueCreationError *)

\* Issue.model_dump(): the four fields as a dict; empty lists stay lists.
model_dump(issue) ==
  PyDict([k \in {"title", "body", "labels", "assignees"} |->
            CASE k = "title" -> PyStr(issue.title)
              [] k = "body" -> PyStr(issue.body)
              [] k = "labels" -> PyList(issue.labels)
              [] k = "assignees" -> PyList(issue.assignees)])

StrFields == {"repository_url", "issue_url", "issue_title", "issue_state", "created_at"}
IntFields == {"issue_id", "issue_number"}

\* IssueResponseValid with every field declared Optional.
IssueResponseValid_lax(kw) ==
  /\ \A f \in StrFields : kw[f].t \in {"None", "str"}
  /\ \A f \in IntFields : kw[f].t \in {"None", "int"}
  /\ kw.author.t \in {"None", "str"}

\* pydantic's validation of IssueResponse(**kw): every str field holds a str,
\* every int field an int, and author (Optional[str]) a str or None.
IssueResponseValid(kw) ==
  /\ \A f \in StrFields : kw[f].t = "str"
  /\ \A f \in IntFields : kw[f].t = "int"
  /\ kw.author.t \in {"None", "str"}

\* IssueCreationError(message, status_code=None, response_text=None)
IssueCreationError(message, status_code, response_text) ==
  [message |-> message, status_code |-> status_code, response_text |-> response_text]

\* IssueCreationError.__str__
IssueCreationError_str(e) ==
  LET base_msg == "IssueCreationError: " \o e.message
      with_code == IF Truthy(e.status_code)
                   THEN base_msg \o " | Status code: " \o Format(e.status_code)
                   ELSE base_msg
  IN IF Truthy(e.response_text)
     THEN with_code \o " | Response: " \o Format(e.response_text)
     ELSE with_code

-----------------------------------------------------------------------------
(* The transport: what session.post and the response object do *)

\* The status create accepts as success.
Created == 201

DefaultTimeout == 10

Details == {"Network Error", "timed out"}
StatusCodes == {200, Created, 400}
Texts == {"", "Bad Request"}

RequiredKeys == {"html_url", "id", "number", "title", "state", "created_at"}

With(d, k, x) == [j \in DOMAIN d \cup {k} |-> IF j = k THEN x ELSE d[j]]
Without(d, k) == [j \in DOMAIN d \ {k} |-> d[j]]

\* The body of a created issue, without its user.
IssueBody ==
  [k \in RequiredKeys |->
     CASE k = "html_url" -> PyStr("https://github.com/fake_owner/fake_repo/issues/1")
       [] k = "id" -> PyInt(123456)
       [] k = "number" -> PyInt(1)
       [] k = "title" -> PyStr("Test")
       [] k = "state" -> PyStr("open")
       [] k = "created_at" -> PyStr("2024-06-01T00:00:00Z")]

Users ==
  {PyNone, EmptyDict, PyDict([k \in {"login"} |-> PyStr("test_user")]),
   PyDict([k \in {"login"} |-> PyNone])}

FullBody == With(IssueBody, "user", PyDict([k \in {"login"} |-> PyStr("test_user")]))

\* JSON documents a 201 response may hold: the issue with each shape of user,
\* the issue with one required key missing or null, and a non-object.
CreatedDocs ==
  {PyDict(IssueBody)}
    \cup {PyDict(With(IssueBody, "user", u)) : u \in Users}
    \cup {PyDict(Without(FullBody, k)) : k \in RequiredKeys}
    \cup {PyDict(With(FullBody, k, PyNone)) : k \in RequiredKeys}
    \cup {PyList(<<>>)}

ErrorDoc == PyDict([k \in {"message"} |-> PyStr("Validation Failed")])

NotJson == [ok |-> FALSE, v |-> PyNone]
Json(doc) == [ok |-> TRUE, v |-> doc]

\* Outcomes of session.post: a RequestException with its detail, or a response
\* with its status code, raw text, whether raise_for_status raises HTTPError,
\* and what json() yields.
Raises == {[kind |-> "raise", detail |-> d] : d \in Details}
Responses ==
  {[kind |-> "response", status_code |-> s, text |-> txt, http_error |-> h, json |-> j] :
     s \in StatusCodes, txt \in Texts, h \in BOOLEAN,
     j \in {NotJson, Json(ErrorDoc)} \cup {Json(d) : d \in CreatedDocs}}
\* Only a 201 that passes the status check has its body read, so the other
\* responses carry one of two bodies.
Transports ==
  Raises \cup {r \in Responses :
                 (r.status_code # Created \/ r.http_error)
                   => r.json \in {NotJson, Json(ErrorDoc)}}

Issues ==
  {[title |-> "Test", body |-> "This is a test", labels |-> <<>>, assignees |-> <<>>],
   [title |-> "Bug", body |-> "", labels |-> <<"bug">>, assignees |-> <<"octocat">>]}
Timeouts == {DefaultTimeout, 30}
\* The (issue, timeout) pairs a caller passes to create.
CallArgs ==
  {<<i, tm>> \in Issues \X Timeouts : (tm = DefaultTimeout) <=> (i.title = "Test")}

-----------------------------------------------------------------------------
(* create *)

NoValue == [none |-> TRUE]

Return(type, value, json_calls) ==
  [outcome |-> "return", type |-> type, value |-> value, json_calls |-> json_calls]
Raise(type, value, json_calls) ==
  [outcome |-> "raise", type |-> type, value |-> value, json_calls |-> json_calls]

\* The endpoint create posts to.
IssuesUrl(self) ==
  "https://api.github.com/repos/" \o Format(self.repo_owner) \o "/"
    \o Format(self.repo_name) \o "/issues"

\* post with one more attempt after a RequestException.
post_retry(self, url, data, timeout, t) ==
  [request |-> [url |-> url, json |-> data, timeout |-> timeout,
                headers |-> self.session.headers, proxies |-> self.session.proxies],
   sent |-> IF t.kind = "raise" THEN 2 ELSE 1,
   back |-> t]

\* self._session.post(url, json=data, timeout=timeout): the request the
\* transport receives, how many times it receives it, and what comes back.
post(self, url, data, timeout, t) ==
  [request |-> [url |-> url, json |-> data, timeout |-> timeout,
                headers |-> self.session.headers, proxies |-> self.session.proxies],
   sent |-> 1,
   back |-> t]

\* except requests.HTTPError
OnHTTPError(response) ==
  IssueCreationError("HTTP error occurred while creating the issue.",
                     PyInt(response.status_code), PyStr(response.text))

\* OnRequestException with the exception's detail left out of the message.
OnRequestException_noDetail(detail) ==
  IssueCreationError("Request failed.", PyNone, PyNone)

\* except requests.RequestException as e
OnRequestException(detail) ==
  IssueCreationError("Request failed: " \o detail, PyNone, PyNone)

\* IsCreated accepting every 2xx status.
IsCreated_any2xx(response) ==
  response.status_code >= 200 /\ response.status_code < 300

\* if response.status_code != 201
IsCreated(response) == response.status_code = Created

OnNotCreated(response) ==
  IssueCreationError("Failed to create issue.",
                     PyInt(response.status_code), PyStr(response.text))

\* response.json() and the IssueResponse built from it. A body that is not JSON
\* raises JSONDecodeError out of json(); .get on a value that is no dict raises
\* AttributeError; a field pydantic rejects raises ValidationError.
BuildResponse(self, response) ==
  IF ~response.json.ok THEN Raise("JSONDecodeError", NoValue, 1)
  ELSE
    LET response_data == response.json.v IN
    IF ~IsDict(response_data) THEN Raise("AttributeError", NoValue, 1)
    ELSE
      LET user == Get(response_data, "user", EmptyDict) IN
      IF ~IsDict(user) THEN Raise("AttributeError", NoValue, 1)
      ELSE
        LET kw == [repository_url |->
                     PyStr("https://github.com/" \o Format(self.repo_owner)
                             \o "/" \o Format(self.repo_name)),
                   issue_url |-> Get(response_data, "html_url", PyNone),
                   issue_id |-> Get(response_data, "id", PyNone),
                   issue_number |-> Get(response_data, "number", PyNone),
                   issue_title |-> Get(response_data, "title", PyNone),
                   issue_state |-> Get(response_data, "state", PyNone),
                   created_at |-> Get(response_data, "created_at", PyNone),
                   author |-> Get(user, "login", PyNone)]
        IN IF IssueResponseValid(kw) THEN Return("IssueResponse", kw, 1)
           ELSE Raise("ValidationError", NoValue, 1)

\* print(f"... {response.json()['html_url']}") of the older class, which then
\* returns None.
PrintUrl(response) ==
  IF ~response.json.ok THEN Raise("JSONDecodeError", NoValue, 1)
  ELSE
    LET response_data == response.json.v IN
    IF ~IsDict(response_data) THEN Raise("TypeError", NoValue, 1)
    ELSE IF "html_url" \notin DOMAIN response_data.v THEN Raise("KeyError", NoValue, 1)
    ELSE Return("NoneType",
                [printed |-> "Issue created successfully! URL: "
                               \o Format(response_data.v["html_url"])], 1)

\* Classify with the status comparison made before the HTTPError handling.
Classify_statusFirst(self, back) ==
  IF back.kind = "raise"
    THEN Raise("IssueCreationError", OnRequestException(back.detail), 0)
  ELSE IF ~IsCreated(back)
    THEN Raise("IssueCreationError", OnNotCreated(back), 0)
  ELSE IF back.http_error
    THEN Raise("IssueCreationError", OnHTTPError(back), 0)
  ELSE IF self.cls = "github_issue_creator" THEN BuildResponse(self, back)
  ELSE PrintUrl(back)

\* What the body of create does with what came back from the transport.
Classify(self, back) ==
  IF back.kind = "raise"
    THEN Raise("IssueCreationError", OnRequestException(back.detail), 0)
  ELSE IF back.http_error
    THEN Raise("IssueCreationError", OnHTTPError(back), 0)
  ELSE IF ~IsCreated(back)
    THEN Raise("IssueCreationError", OnNotCreated(back), 0)
  ELSE IF self.cls = "github_issue_creator" THEN BuildResponse(self, back)
  ELSE PrintUrl(back)

\* IssueCreator.create(issue, timeout) of either class, against transport t.
create(self, issue, timeout, t) ==
  LET p == post(self, IssuesUrl(self), model_dump(issue), timeout, t)
  IN [request |-> p.request, sent |-> p.sent, transport |-> p.back,
      result |-> Classify(self, p.back)]

-----------------------------------------------------------------------------
(* The state machine *)

NoCall == [called |-> FALSE]

Init ==
  /\ client = NoClient
  /\ ctor = NoCtor
  /\ sessions = 0
  /\ posts = 0
  /\ calls = 0
  /\ last = NoCall
  /\ strOut = PyNone

\* A caller constructs github_issue_creator.IssueCreator.
Construct ==
  /\ client = NoClient
  /\ \E token \in Tokens, repo_owner \in Owners, repo_name \in Repos, proxy \in Proxies :
       LET r == IssueCreator_init(token, repo_owner, repo_name, proxy) IN
       /\ ctor' = [cls |-> "github_issue_creator", token |-> token,
                   repo_owner |-> repo_owner, repo_name |-> repo_name,
                   proxy |-> proxy, raised |-> r.raised]
       /\ client' = r.self
       /\ sessions' = sessions + r.sessions
  /\ UNCHANGED <<posts, calls, last, strOut>>

\* A caller constructs issue_creator.IssueCreator.
ConstructLegacy ==
  /\ client = NoClient
  /\ \E token \in Tokens, repo_owner \in Owners, repo_name \in Repos :
       LET r == LegacyIssueCreator_init(token, repo_owner, repo_name) IN
       /\ ctor' = [cls |-> "issue_creator", token |-> token,
                   repo_owner |-> repo_owner, repo_name |-> repo_name,
                   proxy |-> PyNone, raised |-> r.raised]
       /\ client' = r.self
       /\ sessions' = sessions + r.sessions
  /\ UNCHANGED <<posts, calls, last, strOut>>

\* A caller calls create on the constructed client.
Create ==
  /\ client # NoClient
  /\ calls < MaxCalls
  /\ \E a \in CallArgs, t \in Transports :
       LET c == create(client, a[1], a[2], t) IN
       /\ last' = [called |-> TRUE, issue |-> a[1], timeout |-> a[2],
                   request |-> c.request, transport |-> c.transport,
                   result |-> c.result, posts_before |-> posts]
       /\ posts' = posts + c.sent
  /\ calls' = calls + 1
  /\ strOut' = PyNone
  /\ UNCHANGED <<client, ctor, sessions>>

\* The caller converts the IssueCreationError it caught to a string.
StrError ==
  /\ last.called
  /\ last.result.type = "IssueCreationError"
  /\ strOut = PyNone
  /\ strOut' = PyStr(IssueCreationError_str(last.result.value))
  /\ UNCHANGED <<client, ctor, sessions, posts, calls, last>>

Next == Construct \/ ConstructLegacy \/ Create \/ StrError

Spec == Init /\ [][Next]_vars

-----------------------------------------------------------------------------
(* Properties *)

Structured == client.cls = "github_issue_creator"

\* The last call got a response from the transport.
GotResponse == last.called /\ last.transport.kind = "response"

\* The last call failed with this IssueCreationError.
FailedWith(e) ==
  /\ last.result.outcome = "raise"
  /\ last.result.type = "IssueCreationError"
  /\ last.result.value = e

\* The JSON document of the last response is an object holding a non-null
\* value under every required key.
CarriesRequired ==
  /\ last.transport.json.ok
  /\ last.transport.json.v.t = "dict"
  /\ \A k \in RequiredKeys :
       /\ k \in DOMAIN last.transport.json.v.v
       /\ last.transport.json.v.v[k] # PyNone

\* user.login of the last response's document, PyNone when it has none.
CarriedLogin ==
  LET doc == last.transport.json.v.v IN
  IF "user" \in DOMAIN doc /\ doc["user"].t = "dict" /\ "login" \in DOMAIN doc["user"].v
  THEN doc["user"].v["login"]
  ELSE PyNone

\* C1: a 201 response that passes the status check and carries html_url, id,
\* number, title, state and created_at makes create return an IssueResponse
\* holding exactly those values, the author user.login (None when the response
\* has no user.login), and the repository URL built from the configured owner
\* and repo.
C1_OutcomeMapping ==
  (/\ GotResponse
   /\ Structured
   /\ last.transport.status_code = Created
   /\ ~last.transport.http_error
   /\ CarriesRequired)
  => LET doc == last.transport.json.v.v IN
     /\ last.result.outcome = "return"
     /\ last.result.type = "IssueResponse"
     /\ last.result.value =
          [repository_url |->
             PyStr("https://github.com/" \o client.repo_owner.v \o "/" \o client.repo_name.v),
           issue_url |-> doc["html_url"],
           issue_id |-> doc["id"],
           issue_number |-> doc["number"],
           issue_title |-> doc["title"],
           issue_state |-> doc["state"],
           created_at |-> doc["created_at"],
           author |-> CarriedLogin]

\* C2: a response the transport's status check flags makes create fail with
\* the "HTTP error occurred" IssueCreationError carrying the response's status
\* code and raw body, whatever the status code is.
C2_HTTPErrorFirst ==
  (GotResponse /\ last.transport.http_error)
  => FailedWith([message |-> "HTTP error occurred while creating the issue.",
                 status_code |-> PyInt(last.transport.status_code),
                 response_text |-> PyStr(last.transport.text)])

C2_Witness ==
  /\ GotResponse
  /\ last.transport.http_error
  /\ last.transport.status_code = 400
  /\ last.transport.text = "Bad Request"
  /\ last.result.type = "IssueCreationError"
  /\ last.result.value.status_code = PyInt(400)

\* C3: a response the status check does not flag and whose status is not 201
\* makes create fail with the "Failed to create issue." IssueCreationError
\* carrying the status code and raw body, and json() is never called on it.
C3_NotCreated ==
  (GotResponse /\ ~last.transport.http_error /\ last.transport.status_code # 201)
  => /\ FailedWith([message |-> "Failed to create issue.",
                    status_code |-> PyInt(last.transport.status_code),
                    response_text |-> PyStr(last.transport.text)])
     /\ last.result.json_calls = 0

C3_Witness ==
  /\ GotResponse
  /\ ~last.transport.http_error
  /\ last.transport.status_code = 200
  /\ last.transport.json.ok
  /\ last.result.type = "IssueCreationError"
  /\ last.result.value.message = "Failed to create issue."

\* C4: a RequestException raised by the POST with detail d makes create fail
\* with an IssueCreationError whose message is "Request failed: " followed by d
\* and whose status code and response text are None.
C4_RequestFailed ==
  (last.called /\ last.transport.kind = "raise")
  => FailedWith([message |-> "Request failed: " \o last.transport.detail,
                 status_code |-> PyNone,
                 response_text |-> PyNone])

C4_Witness ==
  /\ last.called
  /\ last.transport.kind = "raise"
  /\ last.transport.detail = "Network Error"
  /\ last.result.type = "IssueCreationError"
  /\ last.result.value.message = "Request failed: Network Error"

\* An argument that is None or the empty string.
EmptyOrAbsent(x) == x = PyNone \/ x = PyStr("")

\* C5: a construction (of either class) whose token, owner or repo name is
\* empty or absent raises ValueError, leaves no client, creates no session and
\* sends nothing, whatever the proxy is; with all three non-empty and no proxy
\* it succeeds.
C5_RequiredArgs ==
  (ctor.cls # "none")
  => /\ (EmptyOrAbsent(ctor.token) \/ EmptyOrAbsent(ctor.repo_owner)
           \/ EmptyOrAbsent(ctor.repo_name))
          => /\ ctor.raised # PyNone
             /\ client = NoClient
             /\ sessions = 0
             /\ posts = 0
     /\ (/\ ~EmptyOrAbsent(ctor.token)
         /\ ~EmptyOrAbsent(ctor.repo_owner)
         /\ ~EmptyOrAbsent(ctor.repo_name)
         /\ ctor.proxy = PyNone)
          => /\ ctor.raised = PyNone
             /\ client # NoClient
             /\ sessions = 1

C5_Witness ==
  /\ ctor.cls = "github_issue_creator"
  /\ ctor.token = PyStr("fake_token")
  /\ ctor.repo_owner = PyStr("fake_owner")
  /\ ctor.repo_name = PyStr("")
  /\ ctor.proxy = ProxyDict
  /\ ctor.raised = PyStr("Repository name is required.")
  /\ client = NoClient

\* C6: a construction with non-empty token, owner and repo and a proxy that is
\* given but is no dict raises ValueError and creates no session, whatever the
\* proxy value is.
C6_ProxyMustBeDict ==
  (/\ ctor.cls = "github_issue_creator"
   /\ ~EmptyOrAbsent(ctor.token)
   /\ ~EmptyOrAbsent(ctor.repo_owner)
   /\ ~EmptyOrAbsent(ctor.repo_name)
   /\ ctor.proxy # PyNone
   /\ ctor.proxy.t # "dict")
  => /\ ctor.raised = PyStr("Proxy must be a dictionary")
     /\ client = NoClient
     /\ sessions = 0

\* C7: the transport has received exactly as many POSTs as create was called,
\* and the last call added exactly one, however the calls ended.
C7_OnePostPerCall ==
  /\ posts = calls
  /\ last.called => posts = last.posts_before + 1

C7_Witness ==
  /\ calls >= 2
  /\ posts = calls
  /\ last.called
  /\ last.transport.kind = "raise"
  /\ last.result.outcome = "raise"

\* C8: create of the structured client either returns an IssueResponse or
\* raises IssueCreationError, whatever the transport does.
C8_OnlyIssueCreationError ==
  (last.called /\ Structured)
  => \/ last.result.outcome = "return" /\ last.result.type = "IssueResponse"
     \/ last.result.outcome = "raise" /\ last.result.type = "IssueCreationError"

\* C9: an IssueResponse that create returned comes from a 201 response that
\* passed the status check and has every field but author populated; a 201
\* response whose document lacks a required value yields no IssueResponse.
C9_OutcomePopulated ==
  /\ (last.called /\ last.result.outcome = "return" /\ last.result.type = "IssueResponse")
       => /\ last.transport.kind = "response"
          /\ last.transport.status_code = 201
          /\ ~last.transport.http_error
          /\ \A f \in StrFields \cup IntFields : last.result.value[f] # PyNone
  /\ (/\ GotResponse
      /\ Structured
      /\ last.transport.status_code = 201
      /\ ~last.transport.http_error
      /\ ~CarriesRequired)
       => last.result.outcome = "raise"

C9_Witness ==
  /\ last.called
  /\ last.result.outcome = "return"
  /\ last.result.type = "IssueResponse"
  /\ last.result.value.author = PyNone
  /\ last.result.value.issue_id = PyInt(123456)

\* s ends with suffix.
EndsWith(s, suffix) ==
  /\ Len(s) >= Len(suffix)
  /\ SubSeq(s, Len(s) - Len(suffix) + 1, Len(s)) = suffix

\* C10: the string of an IssueCreationError ends with the message, followed by
\* " | Status code: <n>" exactly when the status code is not None, followed by
\* " | Response: <body>" exactly when the response text is not None.
C10_StrShowsPresentFields ==
  (strOut # PyNone)
  => LET e == last.result.value IN
     EndsWith(strOut.v,
              e.message
                \o (IF e.status_code # PyNone
                    THEN " | Status code: " \o ToString(e.status_code.v) ELSE "")
                \o (IF e.response_text # PyNone
                    THEN " | Response: " \o e.response_text.v ELSE ""))

====
